---- MODULE Spec2Model ----
(***************************************************************************)
(* Meet-Minding: the per-team History Store (team_storage.py), the Context  *)
(* Formatter, the analysis pipeline (meeting_processor.py), the pattern     *)
(* based extractor (mcp_server.py) and the request handlers (app.py).       *)
(*                                                                         *)
(* Conventions.  A Python str is a sequence of tokens (TLA+ strings); the   *)
(* empty str is << >>.  A token stands for one character unless TokLen      *)
(* says otherwise.  A Python dict is a function from field names to JSON    *)
(* values, and a JSON value carries its type in the field t.                *)
(***************************************************************************)
EXTENDS Integers, Sequences, FiniteSets, TLC

\* ------------------------------------------------------------------ bounds
MaxSaves == 2          \* saves performed on top of the initial store
MaxTicks == 1          \* one-second clock steps taken within a minute
MaxLimit == 2          \* largest explicit limit argument
MaxDamaged == 2        \* stored units that are not what json.dump wrote
MaxRepeat == 6         \* times a line is repeated in a transcript
MaxThreads == 2        \* request threads of the server
MaxChildren == 2       \* side-channel processes alive at once

\* ------------------------------------------------------- program constants
GuardSeconds == 60     \* timedelta(minutes=1)
DefaultLimit == 5      \* limit: int = 5
SummaryChars == 500    \* ai_response[:500]

Min(a, b) == IF a < b THEN a ELSE b

Last(s) == s[Len(s)]

Range(s) == {s[i] : i \in 1..Len(s)}

\* ------------------------------------------------------------------- text
Digits == <<"0", "1", "2", "3", "4", "5", "6", "7", "8", "9">>

DigitOf ==
    ("0" :> 0) @@ ("1" :> 1) @@ ("2" :> 2) @@ ("3" :> 3) @@ ("4" :> 4) @@ ("5" :> 5)
      @@ ("6" :> 6) @@ ("7" :> 7) @@ ("8" :> 8) @@ ("9" :> 9)

IsDigit(c) == c \in DOMAIN DigitOf

DigitVal(c) == DigitOf[c]

\* "%02d"
Pad2(n) == <<Digits[(n \div 10) + 1], Digits[(n % 10) + 1]>>

\* str.lower() on the characters the team identifiers use
Lower(c) ==
    CASE c = "D" -> "d" [] c = "T" -> "t" [] c = "O" -> "o" [] OTHER -> c

\* str.upper()
Upper(c) ==
    CASE c = "d" -> "D" [] c = "t" -> "T" [] c = "o" -> "O" [] OTHER -> c

\* the code point of a character; ".json" is one token ordered as "."
CodeOf ==
    (" " :> 32) @@ ("*" :> 42) @@ (".json" :> 46) @@ ("/" :> 47) @@ (":" :> 58)
      @@ ("D" :> 68) @@ ("O" :> 79)
      @@ ("T" :> 84) @@ ("_" :> 95) @@ ("d" :> 100) @@ ("o" :> 111) @@ ("t" :> 116)
      @@ [c \in DOMAIN DigitOf |-> 48 + DigitOf[c]]

Code(c) == CodeOf[c]

\* Python's str ordering from the i-th character on: a[i:] < b[i:]
RECURSIVE LexLessFrom(_, _, _)
LexLessFrom(a, b, i) ==
    IF i > Len(a) THEN i <= Len(b)
    ELSE IF i > Len(b) THEN FALSE
    ELSE IF a[i] = b[i] THEN LexLessFrom(a, b, i + 1)
    ELSE Code(a[i]) < Code(b[i])

\* Python's str ordering: a < b
LexLess(a, b) == LexLessFrom(a, b, 1)

\* number of characters a token stands for
TokLen(tok) ==
    CASE tok = "w250" -> 250 [] tok = "w300" -> 300 [] tok = "w200" -> 200
      [] tok = "..." -> 3
      [] tok = "John: We decided to ship Friday" -> 31
      [] tok = "Sarah will write the release notes" -> 34
      [] tok = "to ship Friday" -> 14 [] tok = "ship Friday" -> 11
      [] tok = "write the release notes" -> 23
      [] tok = "John" -> 4 [] tok = "Sarah" -> 5 [] tok = "Friday" -> 6
      [] tok = "Sarah: agreed to go live" -> 24 [] tok = "to go live" -> 10
      [] tok = "Mike: resolved quickly" -> 22 [] tok = "quickly" -> 7
      [] tok = "Todo: update the budget" -> 23 [] tok = "update the budget" -> 17
      [] tok = "Review Budget Marketing Roadmap Hiring Launch" -> 45
      [] tok = "Mike" -> 4 [] tok = "Todo" -> 4 [] tok = "Review" -> 6
      [] tok = "Budget" -> 6 [] tok = "Marketing" -> 9 [] tok = "Roadmap" -> 7
      [] tok = "Hiring" -> 6 [] tok = "Launch" -> 6
      [] OTHER -> 1

RECURSIVE StrLen(_)
StrLen(s) == IF s = << >> THEN 0 ELSE TokLen(Head(s)) + StrLen(Tail(s))

\* a run of k characters of prose
Prose(k) == CASE k = 200 -> "w200" [] k = 250 -> "w250" [] k = 300 -> "w300"
              [] OTHER -> "w1"

\* s[:k]
RECURSIVE Slice(_, _)
Slice(s, k) ==
    IF s = << >> \/ k <= 0 THEN << >>
    ELSE IF TokLen(Head(s)) <= k
         THEN <<Head(s)>> \o Slice(Tail(s), k - TokLen(Head(s)))
         ELSE <<Prose(k)>>

\* ------------------------------------------------------------ JSON values
JStr(s) == [t |-> "str", s |-> s]
JNum(n) == [t |-> "num", n |-> n]
JNull == [t |-> "null"]
JList(items) == [t |-> "list", items |-> items]
JObj(m) == [t |-> "obj", m |-> m]

EmptyDict == [k \in {} |-> JNull]

\* dict.get(k, default)
Get(d, k, default) == IF k \in DOMAIN d THEN d[k] ELSE default

\* d[k] = v
Put(d, k, v) == [x \in (DOMAIN d) \cup {k} |-> IF x = k THEN v ELSE d[x]]

\* bool(v)
Truthy(v) ==
    CASE v.t = "str" -> v.s # << >>
      [] v.t = "num" -> v.n # 0
      [] v.t = "list" -> v.items # << >>
      [] v.t = "obj" -> DOMAIN v.m # {}
      [] OTHER -> FALSE

\* ------------------------------------------------- meeting_processor.py
Lit(x) == JStr(<<x>>)

NotSpecified == Lit("Not specified")

EmptyList == JList(<< >>)

\* the well-formed JSON object texts a reply may embed, by token
ObjTokens == {"J_full", "J_min", "J_mixed", "J_prio", "J_num"}

TaskFull ==
    JObj([task |-> Lit("write the release notes"), assignee |-> Lit("Sarah"),
          due_date |-> Lit("Thursday"), priority |-> Lit("high"),
          status |-> Lit("assigned")])

ObjOf(tok) ==
    CASE tok = "J_full" ->
           [summary |-> Lit("s1"), participants |-> JList(<<Lit("John"), Lit("Sarah")>>),
            key_decisions |-> JList(<<Lit("ship Friday")>>),
            tasks |-> JList(<<TaskFull>>),
            action_items |-> JList(<<Lit("write the release notes")>>),
            next_meeting |-> Lit("Monday"),
            topics_discussed |-> JList(<<Lit("Release")>>)]
      [] tok = "J_min" -> [summary |-> Lit("s2")]
      [] tok = "J_mixed" ->
           [summary |-> Lit("s3"),
            tasks |-> JList(<<Lit("call Bob"), JObj([task |-> Lit("x")]), JNum(7)>>)]
      [] tok = "J_prio" ->
           [summary |-> Lit("s4"),
            tasks |-> JList(<<JObj([task |-> Lit("y"), priority |-> Lit("urgent"),
                                    status |-> Lit("blocked")])>>)]
      [] OTHER -> [summary |-> Lit("s5"), tasks |-> JNum(5)]

HasOpen(tok) == tok = "{" \/ tok \in ObjTokens

HasClose(tok) == tok = "}" \/ tok \in ObjTokens

\* re.search(r'\{.*\}', text, re.DOTALL): << >> when nothing matches, else
\* <<i, j>>, the tokens of the first "{" and of the last "}"
RegexSearch(text) ==
    LET opens == {i \in 1..Len(text) : HasOpen(text[i])}
        closes == {j \in 1..Len(text) : HasClose(text[j])}
    IN IF opens = {} \/ closes = {} THEN << >>
       ELSE LET i == CHOOSE x \in opens : \A y \in opens : x <= y
                j == CHOOSE x \in closes : \A y \in closes : y <= x
            IN IF i < j \/ (i = j /\ text[i] \in ObjTokens) THEN <<i, j>> ELSE << >>

\* json.loads(json_str): a span parses when it is one well-formed object
JsonLoads(span) ==
    IF Len(span) = 1 /\ span[1] \in ObjTokens
    THEN [exc |-> "none", val |-> ObjOf(span[1])]
    ELSE [exc |-> "JSONDecodeError", val |-> EmptyDict]

ValidatedTask(task) ==
    IF task.t = "obj"
    THEN <<JObj([task |-> Get(task.m, "task", JStr(<< >>)),
                 assignee |-> Get(task.m, "assignee", NotSpecified),
                 due_date |-> Get(task.m, "due_date", NotSpecified),
                 priority |-> Get(task.m, "priority", Lit("medium")),
                 status |-> Get(task.m, "status", Lit("discussed"))])>>
    ELSE IF task.t = "str"
    THEN <<JObj([task |-> task, assignee |-> NotSpecified, due_date |-> NotSpecified,
                 priority |-> Lit("medium"), status |-> Lit("discussed")])>>
    ELSE << >>

RECURSIVE ValidatedTasks(_)
ValidatedTasks(items) ==
    IF items = << >> THEN << >>
    ELSE ValidatedTask(Head(items)) \o ValidatedTasks(Tail(items))

\* iter(v): what a for loop over a JSON value visits
Iterable(v) == v.t \in {"list", "str", "obj"}

SetToSeq(S) == CHOOSE q \in [1..Cardinality(S) -> S] : Range(q) = S

Iter(v) ==
    CASE v.t = "list" -> v.items
      [] v.t = "str" -> [i \in 1..Len(v.s) |-> JStr(<<v.s[i]>>)]
      [] OTHER -> [i \in 1..Cardinality(DOMAIN v.m) |-> Lit(SetToSeq(DOMAIN v.m)[i])]

_validate_result_structure(result) ==
    LET validated ==
          [summary |-> Get(result, "summary", JStr(<< >>)),
           participants |-> Get(result, "participants", EmptyList),
           key_decisions |-> Get(result, "key_decisions", EmptyList),
           tasks |-> Get(result, "tasks", EmptyList),
           action_items |-> Get(result, "action_items", EmptyList),
           next_meeting |-> Get(result, "next_meeting", NotSpecified),
           topics_discussed |-> Get(result, "topics_discussed", EmptyList)]
    IN IF ~Truthy(validated.tasks) THEN [exc |-> "none", val |-> validated]
       ELSE IF ~Iterable(validated.tasks) THEN [exc |-> "TypeError", val |-> EmptyDict]
       ELSE [exc |-> "none",
             val |-> [validated EXCEPT
                        !.tasks = JList(ValidatedTasks(Iter(validated.tasks)))]]

\* ai_response[:500] + "..." if len(ai_response) > 500 else ai_response
\* the first 500 characters with no mark that text was cut
TruncatedBare(ai_response) ==
    IF StrLen(ai_response) > SummaryChars
    THEN Slice(ai_response, SummaryChars)
    ELSE ai_response

\* ai_response[:500] + "..." if len(ai_response) > 500 else ai_response
Truncated(ai_response) ==
    IF StrLen(ai_response) > SummaryChars
    THEN Slice(ai_response, SummaryChars) \o <<"...">>
    ELSE ai_response

_parse_ai_response(ai_response) ==
    LET json_match == RegexSearch(ai_response)
    IN IF json_match # << >>
       THEN LET loaded == JsonLoads(SubSeq(ai_response, json_match[1], json_match[2]))
            IN IF loaded.exc = "none" THEN _validate_result_structure(loaded.val)
               ELSE [exc |-> "none",
                     val |-> [error |-> Lit("Failed to parse AI response as JSON"),
                              raw_response |-> JStr(ai_response),
                              summary |-> Lit("Error processing transcript"),
                              participants |-> EmptyList, key_decisions |-> EmptyList,
                              tasks |-> EmptyList, action_items |-> EmptyList,
                              next_meeting |-> NotSpecified,
                              topics_discussed |-> EmptyList]]
       ELSE [exc |-> "none",
             val |-> [summary |-> JStr(Truncated(ai_response)),
                      participants |-> EmptyList, key_decisions |-> EmptyList,
                      tasks |-> EmptyList, action_items |-> EmptyList,
                      next_meeting |-> NotSpecified, topics_discussed |-> EmptyList]]

\* what bedrock.converse does with a request: gen.kind is "text" (a reply with
\* content), "no_output" (a response without output or content) or "raises"
_call_bedrock(prompt, gen) ==
    CASE gen.kind = "text" -> gen.text
      [] gen.kind = "no_output" -> <<"Error: No response from Bedrock">>
      [] OTHER -> <<"Error calling Bedrock: ", "exception">>

\* the prompt, as a sequence of lines
_create_analysis_prompt(transcript, context) ==
    LET context_section ==
          IF context # << >>
          THEN context \o <<<<"IMPORTANT: When analyzing the current meeting transcript below, please:">>,
                             <<"- Reference previous action items and their current status">>,
                             <<"- Update task statuses based on progress mentioned in the current meeting">>,
                             <<"- Mark completed tasks as completed in the status field">>,
                             <<"- Note any follow-up tasks that build on previous work">>,
                             <<"- Ensure continuity in task tracking across meetings">>>>
          ELSE << >>
    IN context_section
       \o <<<<"Please analyze the following meeting transcript">>,
            <<"Meeting Transcript:">>, transcript,
            <<"Please provide your analysis in the following JSON structure:">>,
            <<"Focus on extracting concrete, actionable tasks and clear decisions.">>>>
       \o (IF context # << >>
           THEN <<<<"Remember to track progress on previously assigned tasks">>>>
           ELSE << >>)

\* the record both except clauses of the processor return
FailureRecord(exc) ==
    [error |-> JStr(<<"Failed to process transcript: ", exc>>),
     summary |-> JStr(<< >>), tasks |-> EmptyList,
     participants |-> EmptyList, key_decisions |-> EmptyList]

_process_transcript_direct(transcript, context, gen) ==
    LET analysis_prompt == _create_analysis_prompt(transcript, context)
        ai_response == _call_bedrock(analysis_prompt, gen)
        parsed == _parse_ai_response(ai_response)
    IN IF parsed.exc = "none" THEN parsed.val ELSE FailureRecord(parsed.exc)

\* ------------------------------------------------------- team_storage.py
\* the team identifiers requests use
TeamIds == {<<"D", " ", "T">>, <<"O">>}

\* team_id.lower().replace(" ", "_")
TeamKey(team_id) ==
    [i \in 1..Len(team_id) |->
        IF Lower(team_id[i]) = " " THEN "_" ELSE Lower(team_id[i])]

\* date.strftime("%Y%m%d_%H%M%S") of the clock reading t (seconds of the day);
\* the model's horizon lies within one day, so the "%Y%m%d_" part, the same in
\* every name, is left out
strftime_stamp(t) ==
    Pad2((t \div 3600) % 24) \o Pad2((t \div 60) % 60) \o Pad2(t % 60)

\* datetime.isoformat(), time of day
isoformat(t) ==
    Pad2((t \div 3600) % 24) \o <<":">> \o Pad2((t \div 60) % 60)
        \o <<":">> \o Pad2(t % 60)

\* datetime.fromisoformat(s): does not raise ValueError
IsIsoFormat(s) ==
    /\ Len(s) = 8
    /\ s[3] = ":" /\ s[6] = ":"
    /\ \A i \in {1, 2, 4, 5, 7, 8} : IsDigit(s[i])

fromisoformat(s) ==
    3600 * (10 * DigitVal(s[1]) + DigitVal(s[2]))
      + 60 * (10 * DigitVal(s[4]) + DigitVal(s[5]))
      + 10 * DigitVal(s[7]) + DigitVal(s[8])

\* dt.strftime("%Y-%m-%d %H:%M")
strftime_minute(t) == Pad2((t \div 3600) % 24) \o <<":">> \o Pad2((t \div 60) % 60)

_generate_filename(team_id, date) ==
    TeamKey(team_id) \o <<"_">> \o strftime_stamp(date) \o <<".json">>

\* the order json.dump writes the members in; the order carries no meaning
FieldOrder ==
    <<"error", "raw_response", "summary", "participants", "key_decisions", "tasks",
      "action_items", "next_meeting", "topics_discussed", "team_id", "date",
      "filename">>

\* json.dump(d, f): the text of a unit, the members in writing order
JsonDump(d) ==
    LET ks == SelectSeq(FieldOrder, LAMBDA k : k \in DOMAIN d)
    IN [json |-> [i \in 1..Len(ks) |-> <<ks[i], d[ks[i]]>>]]

\* json.load(f) of a unit that parses: a member's value is that of the last
\* member of its name
JsonLoad(text) ==
    LET members == text.json
        lastOf(k) == CHOOSE i \in 1..Len(members) :
                        /\ members[i][1] = k
                        /\ \A j \in (i + 1)..Len(members) : members[j][1] # k
    IN [k \in {members[i][1] : i \in 1..Len(members)} |-> members[lastOf(k)][2]]

\* json.load raises JSONDecodeError on a unit that is not a JSON text
IsJson(text) == "json" \in DOMAIN text

\* summary_data without line 41: no filename member
StampedWithoutFilename(team_id, summary_data, t1, t2) ==
    Put(Put(summary_data, "team_id", JStr(team_id)), "date", JStr(isoformat(t2)))

\* summary_data after lines 39-41, the clock read at t1 for the name and at
\* t2 for the date
StampedRecord(team_id, summary_data, t1, t2) ==
    Put(Put(Put(summary_data, "team_id", JStr(team_id)),
            "date", JStr(isoformat(t2))),
        "filename", JStr(_generate_filename(team_id, t1)))

\* open(filepath, 'w') and json.dump: the unit is created or replaced
WriteUnit(fs, path, text) ==
    [p \in (DOMAIN fs) \cup {path} |-> IF p = path THEN text ELSE fs[p]]

\* the store after save_meeting_summary; a path is <<team directory, name>>
save_meeting_summary(fs, team_id, summary_data, t1, t2) ==
    LET team_dir == TeamKey(team_id)
        filename == _generate_filename(team_id, t1)
    IN WriteUnit(fs, <<team_dir, filename>>,
                 JsonDump(StampedRecord(team_id, summary_data, t1, t2)))

\* fnmatch of a name against a pattern from their i-th and j-th character on;
\* of the metacharacters the model has "*", which matches any run of characters
RECURSIVE FnMatchFrom(_, _, _, _)
FnMatchFrom(pat, name, i, j) ==
    IF i > Len(pat) THEN j > Len(name)
    ELSE IF pat[i] = "*"
    THEN \E k \in j..(Len(name) + 1) : FnMatchFrom(pat, name, i + 1, k)
    ELSE /\ j <= Len(name)
         /\ name[j] = pat[i]
         /\ FnMatchFrom(pat, name, i + 1, j + 1)

FnMatch(pat, name) == FnMatchFrom(pat, name, 1, 1)

\* os.path.join(directory, name)
PathJoin(directory, name) == directory \o <<"/">> \o name

\* the directory and the name of a joined path
SplitPath(path) ==
    LET k == CHOOSE i \in 1..Len(path) :
                 path[i] = "/" /\ \A j \in 1..(i - 1) : path[j] # "/"
    IN <<SubSeq(path, 1, k - 1), SubSeq(path, k + 1, Len(path))>>

\* glob.glob(team_dir/<key>_*.json): the paths that match. The key is part of
\* the pattern twice, as the directory and as the head of the name, and glob
\* reads a metacharacter in either as a wildcard
GlobSummaryFiles(fs, team_id) ==
    LET key == TeamKey(team_id)
    IN {PathJoin(q[1], q[2]) : q \in {p \in DOMAIN fs :
                        /\ FnMatch(key, p[1])
                        /\ FnMatch(key \o <<"_", "*", ".json">>, p[2])}}

\* list.sort() without reverse=True: oldest name first
RECURSIVE SortForward(_)
SortForward(S) ==
    IF S = {} THEN << >>
    ELSE LET m == CHOOSE x \in S : \A y \in S \ {x} : LexLess(x, y)
         IN <<m>> \o SortForward(S \ {m})

\* list.sort(reverse=True) of the paths
RECURSIVE SortReverse(_)
SortReverse(S) ==
    IF S = {} THEN << >>
    ELSE LET m == CHOOSE x \in S : \A y \in S \ {x} : LexLess(y, x)
         IN <<m>> \o SortReverse(S \ {m})

\* lines 71-80 with >= for >: a unit dated exactly at the threshold is skipped
SkippedAtThreshold(summary, clock, exclude_current) ==
    LET meeting_date_str == Get(summary, "date", JStr(<< >>)).s
    IN /\ meeting_date_str # << >>
       /\ exclude_current
       /\ IsIsoFormat(meeting_date_str)
       /\ fromisoformat(meeting_date_str) >= clock - GuardSeconds

\* lines 71-80: the unit is skipped as the current meeting
SkippedAsCurrent(summary, clock, exclude_current) ==
    LET meeting_date_str == Get(summary, "date", JStr(<< >>)).s
    IN /\ meeting_date_str # << >>
       /\ exclude_current
       /\ IsIsoFormat(meeting_date_str)
       /\ fromisoformat(meeting_date_str) > clock - GuardSeconds

\* the loop of lines 65-88 from the i-th file on
RECURSIVE LoadSummaries(_, _, _, _, _, _, _, _)
LoadSummaries(fs, clock, team_dir, summary_files, i, previous_summaries, limit, exclude_current) ==
    IF i > Len(summary_files) THEN previous_summaries
    ELSE LET text == fs[SplitPath(summary_files[i])]
             summary == JsonLoad(text)
             appended == Append(previous_summaries, summary)
         IN IF ~IsJson(text)
            THEN LoadSummaries(fs, clock, team_dir, summary_files, i + 1,
                               previous_summaries, limit, exclude_current)
            ELSE IF SkippedAsCurrent(summary, clock, exclude_current)
            THEN LoadSummaries(fs, clock, team_dir, summary_files, i + 1,
                               previous_summaries, limit, exclude_current)
            ELSE IF Len(appended) >= limit THEN appended
            ELSE LoadSummaries(fs, clock, team_dir, summary_files, i + 1,
                               appended, limit, exclude_current)

SortedSummaryFiles(fs, team_id) == SortReverse(GlobSummaryFiles(fs, team_id))

\* a unit that is not the text json.dump wrote: cut short (json.load raises
\* JSONDecodeError), not openable (OSError), holding bytes that are not UTF-8
\* (UnicodeDecodeError) or holding a JSON array (summary.get raises
\* AttributeError)
BadKinds == {"truncated", "unreadable", "not_utf8", "json_array"}

BadUnit(kind) == [bad |-> kind]

\* the exception lines 66-85 let out of the loop for a unit, "none" when they
\* raise nothing or catch it (except (json.JSONDecodeError, OSError))
Uncaught(text) ==
    IF IsJson(text) THEN "none"
    ELSE CASE text.bad = "not_utf8" -> "UnicodeDecodeError"
           [] text.bad = "json_array" -> "AttributeError"
           [] OTHER -> "none"

\* the exception the loop of lines 65-88 ends with from the i-th file on,
\* count records appended so far; "none" when it ends normally
RECURSIVE LoadRaises(_, _, _, _, _, _, _, _)
LoadRaises(fs, clock, team_dir, summary_files, i, count, limit, exclude_current) ==
    IF i > Len(summary_files) THEN "none"
    ELSE LET text == fs[SplitPath(summary_files[i])]
         IN IF Uncaught(text) # "none" THEN Uncaught(text)
            ELSE IF ~IsJson(text)
            THEN LoadRaises(fs, clock, team_dir, summary_files, i + 1, count, limit,
                            exclude_current)
            ELSE IF SkippedAsCurrent(JsonLoad(text), clock, exclude_current)
            THEN LoadRaises(fs, clock, team_dir, summary_files, i + 1, count, limit,
                            exclude_current)
            ELSE IF count + 1 >= limit THEN "none"
            ELSE LoadRaises(fs, clock, team_dir, summary_files, i + 1, count + 1, limit,
                            exclude_current)

\* the exception get_previous_meetings raises, "none" when it returns
get_previous_meetings_raises(fs, clock, team_id, limit, exclude_current) ==
    LoadRaises(fs, clock, TeamKey(team_id), SortedSummaryFiles(fs, team_id), 1, 0,
               limit, exclude_current)

get_previous_meetings(fs, clock, team_id, limit, exclude_current) ==
    LoadSummaries(fs, clock, TeamKey(team_id), SortedSummaryFiles(fs, team_id), 1,
                  << >>, limit, exclude_current)

\* get_previous_meetings_for_context passing exclude_current=True
get_previous_meetings_for_context_guarded(fs, clock, team_id, limit) ==
    get_previous_meetings(fs, clock, team_id, limit, TRUE)

get_previous_meetings_for_context(fs, clock, team_id, limit) ==
    get_previous_meetings(fs, clock, team_id, limit, FALSE)

\* '; '.join(items) for a list of str
RECURSIVE JoinStrs(_)
JoinStrs(items) ==
    IF items = << >> THEN << >>
    ELSE IF Len(items) = 1 THEN items[1].s
    ELSE items[1].s \o <<"; ">> \o JoinStrs(Tail(items))

\* lines 113-119
FormattedDatetime(meeting) ==
    LET meeting_datetime == Get(meeting, "date", Lit("Unknown date")).s
    IN IF IsIsoFormat(meeting_datetime)
       THEN strftime_minute(fromisoformat(meeting_datetime))
       ELSE IF meeting_datetime # << >> THEN Slice(meeting_datetime, 16)
       ELSE <<"Unknown date">>

TaskLine(task) ==
    <<"  * ">> \o Get(task.m, "task", Lit("No description")).s
      \o <<" (Assigned: ">> \o Get(task.m, "assignee", Lit("Unassigned")).s
      \o <<", Due: ">> \o Get(task.m, "due_date", Lit("No due date")).s
      \o <<", Status: ">> \o Get(task.m, "status", Lit("Unknown")).s \o <<")">>

\* lines 121-141: the lines of the i-th meeting
MeetingSection(meeting, i) ==
    <<<<"--- Meeting ", Digits[i + 1], " (">> \o FormattedDatetime(meeting) \o <<") ---">>>>
    \o (IF "summary" \in DOMAIN meeting
        THEN <<<<"Summary: ">> \o meeting["summary"].s>> ELSE << >>)
    \o (IF "tasks" \in DOMAIN meeting /\ Truthy(meeting["tasks"])
        THEN <<<<"Previous Action Items:">>>>
             \o [j \in 1..Len(meeting["tasks"].items) |->
                    TaskLine(meeting["tasks"].items[j])]
        ELSE << >>)
    \o (IF "key_decisions" \in DOMAIN meeting /\ Truthy(meeting["key_decisions"])
        THEN <<<<"Key Decisions: ">> \o JoinStrs(meeting["key_decisions"].items)>>
        ELSE << >>)
    \o << << >> >>

RECURSIVE MeetingSections(_, _)
MeetingSections(previous_meetings, i) ==
    IF i > Len(previous_meetings) THEN << >>
    ELSE MeetingSection(previous_meetings[i], i)
         \o MeetingSections(previous_meetings, i + 1)

\* lines 103-145: the block for a non-empty history, as a sequence of lines
ContextBlock(team_id, previous_meetings) ==
    <<<<"=== PREVIOUS MEETING CONTEXT FOR TEAM: ">>
         \o [i \in 1..Len(team_id) |-> Upper(team_id[i])] \o <<" ===">>,
      <<"The following are summaries from recent team meetings.">>,
      <<"- Track progress on previously assigned tasks">>,
      <<"- Identify recurring issues or themes">>,
      <<"- Note completed vs. pending action items">>,
      <<"- Provide continuity in task tracking">>>>
    \o MeetingSections(previous_meetings, 1)
    \o <<<<"=== END PREVIOUS MEETING CONTEXT ===">>>>

\* generate_context_prompt without the early return of lines 100-101
generate_context_prompt_unguarded(fs, clock, team_id) ==
    ContextBlock(team_id,
                 get_previous_meetings_for_context(fs, clock, team_id, DefaultLimit))

\* the context block; << >> is the empty block ""
generate_context_prompt(fs, clock, team_id) ==
    LET previous_meetings ==
          get_previous_meetings_for_context(fs, clock, team_id, DefaultLimit)
    IN IF previous_meetings = << >> THEN << >>
       ELSE ContextBlock(team_id, previous_meetings)

\* item.replace("_", " ")
DisplayName(item) == [i \in 1..Len(item) |-> IF item[i] = "_" THEN " " ELSE item[i]]

\* sorted(teams)
RECURSIVE Sorted(_)
Sorted(S) ==
    IF S = {} THEN << >>
    ELSE LET m == CHOOSE x \in S : \A y \in S \ {x} : LexLess(x, y)
         IN <<m>> \o Sorted(S \ {m})

\* ds: the directories under base_dir
get_team_list(ds) == Sorted({DisplayName(item) : item \in ds})

\* ---------------------------------------------------------- mcp_server.py
\* the transcripts of the model: pieces of text without a full stop, and "."
Transcript == <<"John: We decided to ship Friday", ".">>

Transcript2 == <<"Sarah will write the release notes", ".">>

Transcripts == {Transcript, Transcript2}

\* one match of re.findall: the text of its groups
Match1(g) == [groups |-> <<<<g>>>>]

Match2(g1, g2) == [groups |-> <<<<g1>>, <<g2>>>>]

\* the lines the transcripts of the model are made of; every line is followed
\* by a full stop
Lines ==
    {"John: We decided to ship Friday", "Sarah will write the release notes",
     "Sarah: agreed to go live", "Mike: resolved quickly", "Todo: update the budget",
     "Review Budget Marketing Roadmap Hiring Launch"}

\* re.findall(pattern, line + ".", flags) for the patterns of the analyzer,
\* named by the list they stand in and their place in it, on the lines of the
\* model
LineMatches(pattern, line) ==
    CASE pattern = "speaker_1" /\ line = "John: We decided to ship Friday" ->
           <<Match1("John")>>
      [] pattern = "speaker_1" /\ line = "Sarah: agreed to go live" -> <<Match1("Sarah")>>
      [] pattern = "speaker_1" /\ line = "Mike: resolved quickly" -> <<Match1("Mike")>>
      [] pattern = "speaker_1" /\ line = "Todo: update the budget" -> <<Match1("Todo")>>
      [] pattern = "decision_1" /\ line = "John: We decided to ship Friday" ->
           <<Match1("to ship Friday")>>
      [] pattern = "decision_2" /\ line = "John: We decided to ship Friday" ->
           <<Match1("ship Friday")>>
      [] pattern = "decision_1" /\ line = "Sarah: agreed to go live" ->
           <<Match1("to go live")>>
      [] pattern = "decision_1" /\ line = "Mike: resolved quickly" -> <<Match1("quickly")>>
      [] pattern = "task_1" /\ line = "Todo: update the budget" ->
           <<Match1("update the budget")>>
      [] pattern = "task_2" /\ line = "Sarah will write the release notes" ->
           <<Match2("Sarah", "write the release notes")>>
      [] pattern = "words" /\ line = "John: We decided to ship Friday" ->
           <<Match1("John"), Match1("Friday")>>
      [] pattern = "words" /\ line = "Sarah will write the release notes" ->
           <<Match1("Sarah")>>
      [] pattern = "words" /\ line = "Sarah: agreed to go live" -> <<Match1("Sarah")>>
      [] pattern = "words" /\ line = "Mike: resolved quickly" -> <<Match1("Mike")>>
      [] pattern = "words" /\ line = "Todo: update the budget" -> <<Match1("Todo")>>
      [] pattern = "words" /\ line = "Review Budget Marketing Roadmap Hiring Launch" ->
           <<Match1("Review"), Match1("Budget"), Match1("Marketing"),
             Match1("Roadmap"), Match1("Hiring"), Match1("Launch")>>
      [] OTHER -> << >>

\* re.findall(pattern, transcript, flags): on the transcripts of the model,
\* whose lines each start a line of text and end with a full stop, no match
\* reaches over the end of a line, so the matches are those of the lines in order
RECURSIVE FindAll(_, _)
FindAll(pattern, transcript) ==
    IF transcript = << >> THEN << >>
    ELSE LineMatches(pattern, Head(transcript)) \o FindAll(pattern, Tail(transcript))

\* str.strip()
RECURSIVE Strip(_)
Strip(s) ==
    IF s = << >> THEN s
    ELSE IF Head(s) \in {" ", "\n"} THEN Strip(Tail(s))
    ELSE IF Last(s) \in {" ", "\n"} THEN Strip(SubSeq(s, 1, Len(s) - 1))
    ELSE s

\* the matches of a list of patterns, pattern by pattern
RECURSIVE MatchesOf(_, _)
MatchesOf(patterns, transcript) ==
    IF patterns = << >> THEN << >>
    ELSE FindAll(Head(patterns), transcript) \o MatchesOf(Tail(patterns), transcript)

\* lines 25-39: the set participants at the return statement
ParticipantSet(transcript) ==
    LET matches == MatchesOf(<<"speaker_1", "speaker_2", "speaker_3">>, transcript)
        names == {Strip(matches[i].groups[1]) : i \in 1..Len(matches)}
    IN {name \in names : StrLen(name) > 1 /\ name \notin {<<"Speaker">>, <<"Unknown">>}}

\* the orders in which list(S) can hold the strings of a set S: the order is
\* that of the hash table, set by the hash seed of the interpreter
Orderings(S) == {q \in [1..Cardinality(S) -> S] : Range(q) = S}

\* lines 23-41; order is the one list(participants) yields in this interpreter
extract_participants(transcript, order) ==
    [i \in 1..Len(order) |-> JStr(order[i])]

\* every match taken as one with an assignee
PatternTaskAssigned(match) ==
    JObj([task |-> JStr(Strip(match.groups[Len(match.groups)])),
          assignee |-> JStr(Strip(match.groups[1])),
          due_date |-> NotSpecified, priority |-> Lit("medium"),
          status |-> Lit("assigned")])

\* lines 57-73: the task of one match
PatternTask(match) ==
    IF Len(match.groups) = 2
    THEN JObj([task |-> JStr(Strip(match.groups[2])),
               assignee |-> JStr(Strip(match.groups[1])),
               due_date |-> NotSpecified, priority |-> Lit("medium"),
               status |-> Lit("assigned")])
    ELSE JObj([task |-> JStr(Strip(match.groups[1])),
               assignee |-> NotSpecified, due_date |-> NotSpecified,
               priority |-> Lit("medium"), status |-> Lit("discussed")])

\* lines 43-75
extract_tasks_pattern_based(transcript) ==
    LET matches == MatchesOf(<<"task_1", "task_2", "task_3">>, transcript)
        tasks == [i \in 1..Len(matches) |-> PatternTask(matches[i])]
    IN SubSeq(tasks, 1, Min(Len(tasks), 10))

\* lines 77-94
extract_decisions(transcript) ==
    LET matches == MatchesOf(<<"decision_1", "decision_2", "decision_3">>, transcript)
        stripped == [i \in 1..Len(matches) |-> Strip(matches[i].groups[1])]
        decisions == SelectSeq(stripped, LAMBDA decision : StrLen(decision) > 10)
    IN [i \in 1..Min(Len(decisions), 5) |-> JStr(decisions[i])]

\* transcript.split('.')
RECURSIVE SplitDots(_, _)
SplitDots(s, current) ==
    IF s = << >> THEN <<current>>
    ELSE IF Head(s) = "." THEN <<current>> \o SplitDots(Tail(s), << >>)
    ELSE SplitDots(Tail(s), Append(current, Head(s)))

\* '. '.join(sentences)
RECURSIVE JoinSentences(_)
JoinSentences(sentences) ==
    IF sentences = << >> THEN << >>
    ELSE IF Len(sentences) = 1 THEN sentences[1]
    ELSE sentences[1] \o <<".", " ">> \o JoinSentences(Tail(sentences))

\* the words in the order they are first seen, whatever their frequency
TopicsAsSeen(words, left) ==
    LET first(w) == CHOOSE i \in 1..Len(words) : words[i] = w /\ \A j \in 1..(i - 1) : words[j] # w
        seen == {first(w) : w \in left}
    IN [k \in 1..Cardinality(left) |->
          words[CHOOSE i \in seen : Cardinality({j \in seen : j < i}) = k - 1]]

\* lines 120-126: the words by falling frequency, first seen first among equals
RECURSIVE TopicsByFrequency(_, _)
TopicsByFrequency(words, left) ==
    LET freq(w) == Cardinality({i \in 1..Len(words) : words[i] = w})
        first(w) == CHOOSE i \in 1..Len(words) : words[i] = w /\ \A j \in 1..(i - 1) : words[j] # w
    IN IF left = {} THEN << >>
       ELSE LET m == CHOOSE w \in left : \A v \in left \ {w} :
                        freq(w) > freq(v) \/ (freq(w) = freq(v) /\ first(w) < first(v))
            IN <<m>> \o TopicsByFrequency(words, left \ {m})

\* lines 99-146, the clock read at clock for analysis_timestamp
analyze_meeting_transcript(transcript, clock, order) ==
    LET participants == extract_participants(transcript, order)
        tasks == extract_tasks_pattern_based(transcript)
        decisions == extract_decisions(transcript)
        split == SplitDots(transcript, << >>)
        sentences == SubSeq(split, 1, Min(Len(split), 3))
        summary == Strip(JoinSentences(sentences)) \o <<".">>
        found == FindAll("words", transcript)
        words == SelectSeq([i \in 1..Len(found) |-> found[i].groups[1]],
                           LAMBDA word : word \notin {<<"Speaker">>, <<"The">>, <<"This">>,
                                                       <<"That">>, <<"With">>, <<"From">>})
        ranked == TopicsByFrequency(words, Range(words))
        topics == SubSeq(ranked, 1, Min(Len(ranked), 5))
    IN [summary |-> JStr(summary),
        participants |-> JList(participants),
        key_decisions |-> JList(decisions),
        tasks |-> JList(tasks),
        action_items |-> JList([i \in 1..Len(tasks) |-> tasks[i].m.task]),
        next_meeting |-> NotSpecified,
        topics_discussed |-> JList([i \in 1..Len(topics) |-> JStr(topics[i])]),
        analysis_timestamp |-> JStr(isoformat(clock)),
        transcript_length |-> JNum(StrLen(transcript)),
        processing_method |-> Lit("pattern_based_extraction")]

\* ------------------------------------------------------------------ state
VARIABLES
    now,          \* the wall clock, in seconds
    dirs,         \* the directories under base_dir (storage keys)
    files,        \* the stored units: path -> text
    log,          \* history: the requests that saved a record, oldest first
    resp,         \* the operation that has just returned, its arguments and
                  \* what it returned (for an analysis also the prompt it
                  \* sent to the model), until the caller has taken it
    mcp_process,  \* self.mcp_process: "None", "running" or "exited"
    mcp_client,   \* self.mcp_client: "None" or "client"
    children,     \* the side-channel processes started by Popen that have not
                  \* exited: pid, whether self.mcp_process refers to it (held)
                  \* and whether a probe run after its start has succeeded
    threads       \* the place of each request thread of the server in
                  \* process_meeting_transcript, "idle" outside of it

vars == <<now, dirs, files, log, resp, mcp_process, mcp_client, children, threads>>

\* ---------------------------------------------- the generation capability
GenText(text) == [kind |-> "text", text |-> text]
GenNoOutput == [kind |-> "no_output", text |-> << >>]
GenRaises == [kind |-> "raises", text |-> << >>]

Replies ==
    {<<"J_full">>, <<"w1", "J_full", "w1">>, <<"J_min">>, <<"J_mixed">>, <<"J_prio">>,
     <<"J_num">>, <<"w250", "w1">>, <<"w250", "w300">>, <<"{", "w1", "}">>,
     <<"J_full", "w1", "J_min">>, <<"}", "w1", "{">>, <<"w1", "{">>, << >>}

Gens == {GenText(r) : r \in Replies} \cup {GenNoOutput, GenRaises}

\* what the side channel does during one call: Popen succeeds, the probe of
\* _test_connection succeeds, Client(...) is constructed, initialize() is truthy
Envs == [popen_ok : BOOLEAN, probe_ok : BOOLEAN, ctor_ok : BOOLEAN, init_ok : BOOLEAN]

\* max_retries of _test_connection
MaxRetries == 3

\* what one httpx.get of the capabilities URL does: a response with status
\* 200, a response with another status, or an exception (refused, timed out)
ProbeOutcomes == {"200", "non200", "exception"}

\* the loop of _test_connection from attempt on (attempt counts from 0):
\* the value returned and the calls of httpx.get and time.sleep in order
RECURSIVE ProbeFrom(_, _)
ProbeFrom(outcomes, attempt) ==
    IF attempt >= MaxRetries THEN [result |-> FALSE, events |-> << >>]
    ELSE LET rest == ProbeFrom(outcomes, attempt + 1)
         IN CASE outcomes[attempt + 1] = "200" ->
                   [result |-> TRUE, events |-> <<"get">>]
              [] outcomes[attempt + 1] = "non200" ->
                   [result |-> rest.result, events |-> <<"get">> \o rest.events]
              [] OTHER ->
                   [result |-> rest.result,
                    events |-> <<"get">>
                               \o (IF attempt < MaxRetries - 1 THEN <<"sleep">> ELSE << >>)
                               \o rest.events]

_test_connection(outcomes) == ProbeFrom(outcomes, 0)

\* the side channel is down and the request is given up without a call of
\* _call_bedrock
DirectProcessingAbandoned(transcript, context, gen) ==
    [result |-> FailureRecord("ConnectionError"), calls |-> << >>]

\* return self._process_transcript_direct(transcript, context): the record and
\* the prompts handed to _call_bedrock on the way
DirectProcessing(transcript, context, gen) ==
    [result |-> _process_transcript_direct(transcript, context, gen),
     calls |-> <<_create_analysis_prompt(transcript, context)>>]

\* the request threads of the server
Threads == 1..MaxThreads

\* the process self.mcp_process refers to, if it has not exited
Held(kids) == {c \in kids : c.held}

\* the pid of the next process
NewPid(kids) ==
    CHOOSE p \in 1..(Cardinality(kids) + 1) :
      /\ p \notin {c.pid : c \in kids}
      /\ \A q \in 1..(p - 1) : q \in {c.pid : c \in kids}

\* self.mcp_process = subprocess.Popen(...): a new process, to which the
\* handle refers from now on; probed is FALSE until a probe succeeds
Popen(kids, probed) ==
    {[c EXCEPT !.held = FALSE] : c \in kids}
      \cup {[pid |-> NewPid(kids), held |-> TRUE, probed |-> probed]}

\* the side-channel processes after one call of process_meeting_transcript
\* that found self.mcp_process at proc
ChildrenAfter(kids, proc, env) ==
    IF proc # "running" /\ env.popen_ok THEN Popen(kids, env.probe_ok) ELSE kids

\* process_meeting_transcript on a processor whose fields are proc and client:
\* the returned record, the prompts handed to _call_bedrock and the fields
\* afterwards
process_meeting_transcript(proc, client, transcript, context, gen, env) ==
    LET direct == DirectProcessing(transcript, context, gen)
        need_start == proc # "running"
        proc1 == IF need_start /\ env.popen_ok THEN "running" ELSE proc
        need_init == client = "None"
        client1 == IF need_init /\ env.ctor_ok THEN "client" ELSE client
        analysis_prompt == _create_analysis_prompt(transcript, context)
        ai_response == _call_bedrock(analysis_prompt, gen)
        parsed == _parse_ai_response(ai_response)
    IN IF need_start /\ ~(env.popen_ok /\ env.probe_ok)
       THEN [result |-> direct.result, calls |-> direct.calls, path |-> "direct",
             mcp_process |-> proc1, mcp_client |-> client]
       ELSE IF need_init /\ ~(env.ctor_ok /\ env.init_ok)
       THEN [result |-> direct.result, calls |-> direct.calls, path |-> "direct",
             mcp_process |-> proc1, mcp_client |-> client1]
       ELSE [result |-> IF parsed.exc = "none" THEN parsed.val
                        ELSE FailureRecord(parsed.exc),
             calls |-> <<analysis_prompt>>,
             path |-> "mcp", mcp_process |-> proc1, mcp_client |-> client1]

\* ------------------------------------------------------------------ app.py
EmptyStore == [p \in {} |-> JsonDump(EmptyDict)]

NoTeam == << >>

\* the generation outcomes the requests of the store's specification meet
RequestGens == {GenText(<<"J_full">>)}

\* the side channel during the requests of the store's specification
RequestEnvs == {[popen_ok |-> FALSE, probe_ok |-> FALSE, ctor_ok |-> FALSE,
                 init_ok |-> FALSE]}

\* one logged request whose save returned: what it was given, the context it
\* built, the record the analysis returned and the two clock readings of the save
LogEntry(fs, team_id, gen, summary_data, t1, t2, transcript) ==
    [team_id |-> team_id, gen |-> gen, transcript |-> transcript,
     context |-> generate_context_prompt(fs, t1, team_id),
     summary_data |-> summary_data, t1 |-> t1, t2 |-> t2]

\* the store an earlier run of the program left (construction keeps what
\* base_dir holds): n records of one team, one second apart
InitialTeam == <<"D", " ", "T">>

InitialRecord == _process_transcript_direct(Transcript, << >>, GenText(<<"J_min">>))

RECURSIVE InitialFiles(_)
InitialFiles(n) ==
    IF n = 0 THEN EmptyStore
    ELSE save_meeting_summary(InitialFiles(n - 1), InitialTeam, InitialRecord,
                              n - 1, n - 1)

RECURSIVE InitialLog(_)
InitialLog(n) ==
    IF n = 0 THEN << >>
    ELSE Append(InitialLog(n - 1),
                LogEntry(InitialFiles(n - 1), InitialTeam, GenText(<<"J_min">>),
                         InitialRecord, n - 1, n - 1, Transcript))

NoResponse == [op |-> "none"]

Init ==
    /\ files = InitialFiles(DefaultLimit)
    /\ log = InitialLog(DefaultLimit)
    /\ dirs = {TeamKey(InitialTeam)}
    /\ now = GuardSeconds
    /\ resp = NoResponse
    /\ mcp_process = "None"
    /\ mcp_client = "None"
    /\ children = {}
    /\ threads = [t \in Threads |-> "idle"]

\* the clock moves on by a second
Tick ==
    /\ resp = NoResponse
    /\ now % GuardSeconds < MaxTicks
    /\ now' = now + 1
    /\ UNCHANGED <<dirs, files, log, resp, mcp_process, mcp_client, children, threads>>

\* the clock moves on by a minute
Jump ==
    /\ resp = NoResponse
    /\ now < 2 * GuardSeconds
    /\ now' = now + GuardSeconds
    /\ UNCHANGED <<dirs, files, log, resp, mcp_process, mcp_client, children, threads>>

\* the caller takes what the operation returned
deliver ==
    /\ resp # NoResponse
    /\ resp' = NoResponse
    /\ UNCHANGED <<now, dirs, files, log, mcp_process, mcp_client, children, threads>>

\* the requests logged since the program started
SavesOfThisRun == Cardinality({i \in 1..Len(log) : log[i].t1 >= GuardSeconds})

\* what the file system does to the write of save_meeting_summary: it
\* succeeds, open(filepath, 'w') raises, or json.dump raises after open has
\* created or emptied the unit
Ios == {"ok", "open_fails", "dump_fails"}

\* the file system during the requests of the store's specification
RequestIo == {"ok"}

\* save_meeting_summary swallowing what lines 43-45 raise
save_meeting_summary_swallows(io) == "none"

\* the exception save_meeting_summary raises: lines 43-45 stand in no try
save_meeting_summary_raises(io) == IF io = "ok" THEN "none" ELSE "OSError"

\* the store after a call of save_meeting_summary under io
StoreAfterSave(fs, team_id, summary_data, t1, t2, io) ==
    CASE io = "ok" -> save_meeting_summary(fs, team_id, summary_data, t1, t2)
      [] io = "dump_fails" ->
           WriteUnit(fs, <<TeamKey(team_id), _generate_filename(team_id, t1)>>,
                     BadUnit("truncated"))
      [] OTHER -> fs

\* the handler with the save moved before the context: the context is read
\* from the store that already holds the record of the request
PipelineSavingFirst(op, transcript, team_id, gen, env, d, io) ==
    LET context_raises ==
          IF team_id # NoTeam
          THEN get_previous_meetings_raises(files, now, team_id, DefaultLimit, FALSE)
          ELSE "none"
        saved == process_meeting_transcript(mcp_process, mcp_client, transcript,
                                            << >>, gen, env).result
        context == IF team_id # NoTeam
                   THEN generate_context_prompt(
                          StoreAfterSave(files, team_id, saved, now, now + d, io),
                          now + d, team_id)
                   ELSE << >>
        run == process_meeting_transcript(mcp_process, mcp_client, transcript,
                                          context, gen, env)
        save_raises == save_meeting_summary_raises(io)
    IN IF context_raises # "none"
       THEN /\ dirs' = dirs \cup {TeamKey(team_id)}
            /\ resp' = [op |-> op, status |-> 500, team_id |-> team_id,
                        transcript |-> transcript, error |-> context_raises]
            /\ UNCHANGED <<now, files, log, mcp_process, mcp_client, children, threads>>
       ELSE /\ mcp_process' = run.mcp_process
            /\ mcp_client' = run.mcp_client
            /\ children' = ChildrenAfter(children, mcp_process, env)
            /\ UNCHANGED threads
            /\ IF team_id # NoTeam
               THEN /\ SavesOfThisRun < MaxSaves
                    /\ d = 1 => now % GuardSeconds < MaxTicks
                    /\ io = "dump_fails" =>
                         Cardinality({p \in DOMAIN files : ~IsJson(files[p])}) < MaxDamaged
                    /\ dirs' = dirs \cup {TeamKey(team_id)}
                    /\ files' = StoreAfterSave(files, team_id, run.result, now, now + d, io)
                    /\ now' = now + d
                    /\ IF save_raises # "none"
                       THEN /\ resp' = [op |-> op, status |-> 500, team_id |-> team_id,
                                        transcript |-> transcript, io |-> io,
                                        error |-> save_raises]
                            /\ UNCHANGED log
                       ELSE /\ log' = Append(log, LogEntry(files, team_id, gen, run.result,
                                                           now, now + d, transcript))
                            /\ resp' = [op |-> op, status |-> 200, team_id |-> team_id,
                                        transcript |-> transcript, io |-> io,
                                        prompt |-> _create_analysis_prompt(transcript,
                                                                           context),
                                        result |-> StampedRecord(team_id, run.result,
                                                                 now, now + d)]
               ELSE /\ d = 0
                    /\ io = "ok"
                    /\ resp' = [op |-> op, status |-> 200, team_id |-> team_id,
                                transcript |-> transcript,
                                prompt |-> _create_analysis_prompt(transcript, context),
                                result |-> run.result]
                    /\ UNCHANGED <<now, dirs, files, log>>

\* lines 26-47 of process_transcript and 66-85 of upload_transcript: the
\* context, the analysis, the save and the answer; the clock moves on by d
\* between the two readings of save_meeting_summary
Pipeline(op, transcript, team_id, gen, env, d, io) ==
    LET context_raises ==
          IF team_id # NoTeam
          THEN get_previous_meetings_raises(files, now, team_id, DefaultLimit, FALSE)
          ELSE "none"
        context == IF team_id # NoTeam
                   THEN generate_context_prompt(files, now, team_id)
                   ELSE << >>
        run == process_meeting_transcript(mcp_process, mcp_client, transcript,
                                          context, gen, env)
        save_raises == save_meeting_summary_raises(io)
    IN IF context_raises # "none"
       THEN /\ dirs' = dirs \cup {TeamKey(team_id)}
            /\ resp' = [op |-> op, status |-> 500, team_id |-> team_id,
                        transcript |-> transcript, error |-> context_raises]
            /\ UNCHANGED <<now, files, log, mcp_process, mcp_client, children, threads>>
       ELSE /\ mcp_process' = run.mcp_process
            /\ mcp_client' = run.mcp_client
            /\ children' = ChildrenAfter(children, mcp_process, env)
            /\ UNCHANGED threads
            /\ IF team_id # NoTeam
               THEN /\ SavesOfThisRun < MaxSaves
                    /\ d = 1 => now % GuardSeconds < MaxTicks
                    /\ io = "dump_fails" =>
                         Cardinality({p \in DOMAIN files : ~IsJson(files[p])}) < MaxDamaged
                    /\ dirs' = dirs \cup {TeamKey(team_id)}
                    /\ files' = StoreAfterSave(files, team_id, run.result, now, now + d, io)
                    /\ now' = now + d
                    /\ IF save_raises # "none"
                       THEN /\ resp' = [op |-> op, status |-> 500, team_id |-> team_id,
                                        transcript |-> transcript, io |-> io,
                                        error |-> save_raises]
                            /\ UNCHANGED log
                       ELSE /\ log' = Append(log, LogEntry(files, team_id, gen, run.result,
                                                           now, now + d, transcript))
                            /\ resp' = [op |-> op, status |-> 200, team_id |-> team_id,
                                        transcript |-> transcript, io |-> io,
                                        prompt |-> _create_analysis_prompt(transcript,
                                                                           context),
                                        result |-> StampedRecord(team_id, run.result,
                                                                 now, now + d)]
               ELSE /\ d = 0
                    /\ io = "ok"
                    /\ resp' = [op |-> op, status |-> 200, team_id |-> team_id,
                                transcript |-> transcript,
                                prompt |-> _create_analysis_prompt(transcript, context),
                                result |-> run.result]
                    /\ UNCHANGED <<now, dirs, files, log>>

\* POST /process_transcript
process_transcript(transcript, team_id, gen, env, d, io) ==
    /\ resp = NoResponse
    /\ IF transcript = << >>
       THEN /\ resp' = [op |-> "process_transcript", status |-> 400,
                        transcript |-> transcript, error |-> "No transcript provided"]
            /\ UNCHANGED <<now, dirs, files, log, mcp_process, mcp_client, children, threads>>
       ELSE Pipeline("process_transcript", transcript, team_id, gen, env, d, io)

\* what the multipart request carries as 'file': nothing, a part without a
\* filename, or a named part with its decoded content
NoFile == [part |-> "absent"]

UnnamedFile == [part |-> "unnamed"]

NamedFile(content) == [part |-> "named", content |-> content]

Uploads == {NoFile, UnnamedFile, NamedFile(<< >>), NamedFile(Transcript)}

\* POST /upload_transcript
upload_transcript(file, team_id, gen, env, d, io) ==
    /\ resp = NoResponse
    /\ IF file.part = "absent"
       THEN /\ resp' = [op |-> "upload_transcript", status |-> 400,
                        error |-> "No file provided"]
            /\ UNCHANGED <<now, dirs, files, log, mcp_process, mcp_client, children, threads>>
       ELSE IF file.part = "unnamed"
       THEN /\ resp' = [op |-> "upload_transcript", status |-> 400,
                        error |-> "No file selected"]
            /\ UNCHANGED <<now, dirs, files, log, mcp_process, mcp_client, children, threads>>
       ELSE Pipeline("upload_transcript", file.content, team_id, gen, env, d, io)

\* GET /teams
get_teams ==
    /\ resp = NoResponse
    /\ resp' = [op |-> "get_teams", status |-> 200, teams |-> get_team_list(dirs)]
    /\ UNCHANGED <<now, dirs, files, log, mcp_process, mcp_client, children, threads>>

\* GET /team/<team_id>/history?limit=
get_team_history(team_id, limit) ==
    /\ resp = NoResponse
    /\ dirs' = dirs \cup {TeamKey(team_id)}
    /\ LET raised == get_previous_meetings_raises(files, now, team_id, limit, FALSE)
       IN IF raised # "none"
          THEN resp' = [op |-> "get_team_history", status |-> 500, team_id |-> team_id,
                        limit |-> limit, error |-> raised]
          ELSE resp' = [op |-> "get_team_history", status |-> 200, team_id |-> team_id,
                        limit |-> limit,
                        history |-> get_previous_meetings_for_context(files, now, team_id,
                                                                      limit)]
    /\ UNCHANGED <<now, files, log, mcp_process, mcp_client, children, threads>>

\* TeamSummaryManager.get_previous_meetings(team_id, limit) called on the store
\* with exclude_current left at its default
ExcludeCurrentDefault == TRUE

list_previous_meetings(team_id, limit) ==
    /\ resp = NoResponse
    /\ dirs' = dirs \cup {TeamKey(team_id)}
    /\ LET raised == get_previous_meetings_raises(files, now, team_id, limit,
                                                  ExcludeCurrentDefault)
       IN IF raised # "none"
          THEN resp' = [op |-> "get_previous_meetings", team_id |-> team_id,
                        limit |-> limit, raised |-> raised]
          ELSE resp' = [op |-> "get_previous_meetings", team_id |-> team_id,
                        limit |-> limit,
                        history |-> get_previous_meetings(files, now, team_id, limit,
                                                          ExcludeCurrentDefault)]
    /\ UNCHANGED <<now, files, log, mcp_process, mcp_client, children, threads>>

Limits == (0..MaxLimit) \cup {DefaultLimit}

Next ==
    \/ Tick
    \/ Jump
    \/ deliver
    \/ \E transcript \in {<< >>, Transcript}, team_id \in TeamIds \cup {NoTeam},
          gen \in RequestGens, env \in RequestEnvs, d \in {0, 1}, io \in RequestIo :
         process_transcript(transcript, team_id, gen, env, d, io)
    \/ get_teams
    \/ \E team_id \in TeamIds, limit \in Limits : get_team_history(team_id, limit)
    \/ \E team_id \in TeamIds, limit \in Limits : list_previous_meetings(team_id, limit)

Spec == Init /\ [][Next]_vars

\* --------------------------------------- the analysis pipeline on its own
\* the contexts process_meeting_transcript is called with
Contexts == {<< >>, generate_context_prompt(InitialFiles(1), GuardSeconds, InitialTeam)}

\* MeetingTranscriptProcessor.process_meeting_transcript(transcript, context)
analyse(transcript, context, gen, env) ==
    /\ resp = NoResponse
    /\ LET run == process_meeting_transcript(mcp_process, mcp_client, transcript,
                                             context, gen, env)
       IN /\ mcp_process' = run.mcp_process
          /\ mcp_client' = run.mcp_client
          /\ children' = ChildrenAfter(children, mcp_process, env)
          /\ resp' = [op |-> "process_meeting_transcript", transcript |-> transcript,
                      context |-> context, gen |-> gen, env |-> env,
                      found |-> mcp_process,
                      probed |-> \E c \in Held(children) : c.probed,
                      path |-> run.path, calls |-> run.calls, result |-> run.result]
    /\ UNCHANGED <<now, dirs, files, log, threads>>

\* the side-channel process ends by itself: poll() is not None from now on
mcp_server_exits ==
    /\ resp = NoResponse
    /\ mcp_process = "running"
    /\ mcp_process' = "exited"
    /\ children' = children \ Held(children)
    /\ UNCHANGED <<now, dirs, files, log, resp, mcp_client, threads>>

\* MeetingTranscriptProcessor.cleanup(), as the atexit handler and __del__ call
\* it: terminate() and wait(timeout=5) on a process that is still running;
\* exits_in_time says whether the process ends within the five seconds, and
\* the TimeoutExpired of a process that does not is caught and printed
cleanup(exits_in_time) ==
    /\ resp = NoResponse
    /\ \A t \in Threads : threads[t] = "idle"
    /\ IF mcp_process = "running"
       THEN /\ mcp_process' = IF exits_in_time THEN "exited" ELSE "running"
            /\ children' = IF exits_in_time THEN children \ Held(children) ELSE children
            /\ resp' = [op |-> "cleanup", terminated |-> TRUE,
                        timed_out |-> ~exits_in_time]
       ELSE /\ exits_in_time
            /\ resp' = [op |-> "cleanup", terminated |-> FALSE, timed_out |-> FALSE]
            /\ UNCHANGED <<mcp_process, children>>
    /\ UNCHANGED <<now, dirs, files, log, mcp_client, threads>>

\* MeetingTranscriptProcessor._test_connection() against a server whose
\* answers to the successive probes are outcomes
test_connection(outcomes) ==
    /\ resp = NoResponse
    /\ resp' = [op |-> "_test_connection", outcomes |-> outcomes,
                result |-> _test_connection(outcomes).result,
                events |-> _test_connection(outcomes).events]
    /\ UNCHANGED <<now, dirs, files, log, mcp_process, mcp_client, children, threads>>

NextAnalyze ==
    \/ deliver
    \/ mcp_server_exits
    \/ \E outcomes \in [1..MaxRetries -> ProbeOutcomes] : test_connection(outcomes)
    \/ \E exits_in_time \in BOOLEAN : cleanup(exits_in_time)
    \/ \E transcript \in Transcripts, context \in Contexts, gen \in Gens, env \in Envs :
         analyse(transcript, context, gen, env)

SpecAnalyze == Init /\ [][NextAnalyze]_vars

\* ------------------------------------------- the store with damaged units
\* a stored unit is cut short, made unreadable or rewritten from outside
damage(path, kind) ==
    /\ resp = NoResponse
    /\ IsJson(files[path])
    /\ Cardinality({p \in DOMAIN files : ~IsJson(files[p])}) < MaxDamaged
    /\ files' = [files EXCEPT ![path] = BadUnit(kind)]
    /\ UNCHANGED <<now, dirs, log, resp, mcp_process, mcp_client, children, threads>>

NextRecovery ==
    \/ Jump
    \/ deliver
    \/ \E path \in DOMAIN files, kind \in BadKinds : damage(path, kind)
    \/ \E team_id \in TeamIds, limit \in Limits : get_team_history(team_id, limit)
    \/ \E team_id \in TeamIds, limit \in Limits : list_previous_meetings(team_id, limit)

SpecRecovery == Init /\ [][NextRecovery]_vars

\* the generation outcomes of the requests below: a full object, and an
\* object whose tasks is a number (TypeError in _validate_result_structure)
RequestOutcomes == {GenText(<<"J_full">>), GenText(<<"J_num">>)}

\* the two inbound paths under every generation outcome and every behaviour
\* of the file system
NextRequests ==
    \/ deliver
    \/ \E transcript \in {<< >>, Transcript}, team_id \in {InitialTeam, NoTeam},
          gen \in RequestOutcomes, env \in RequestEnvs, io \in Ios :
         process_transcript(transcript, team_id, gen, env, 0, io)
    \/ \E file \in Uploads, team_id \in {InitialTeam, NoTeam},
          gen \in RequestOutcomes, env \in RequestEnvs, io \in Ios :
         upload_transcript(file, team_id, gen, env, 0, io)

SpecRequests == Init /\ [][NextRequests]_vars

\* ------------------------------------------- the store under several teams
\* team identifiers as a request may send them: a name, the same name in
\* another case, and a name that is a glob metacharacter
IsolationTeams == {<<"O">>, <<"o">>, <<"*">>}

\* saving requests and reads of the histories of these teams
NextIsolation ==
    \/ Tick
    \/ deliver
    \/ \E team_id \in IsolationTeams, gen \in RequestGens, env \in RequestEnvs :
         process_transcript(Transcript, team_id, gen, env, 0, "ok")
    \/ \E team_id \in IsolationTeams : get_team_history(team_id, DefaultLimit)
    \/ \E team_id \in IsolationTeams : list_previous_meetings(team_id, DefaultLimit)

SpecIsolation == Init /\ [][NextIsolation]_vars

\* n times a line of text, each ended by a full stop and a line feed
RECURSIVE Repeat(_, _)
Repeat(line, n) == IF n = 0 THEN << >> ELSE <<line, ".", "\n">> \o Repeat(line, n - 1)

\* the transcripts handed to the pattern-based analysis: a run of one line
\* followed by a run of another
ExtractTranscripts ==
    {Repeat(a, n) \o Repeat(b, m) : a \in Lines, b \in Lines, n \in 0..MaxRepeat, m \in 0..MaxRepeat}

\* the fields of the analysis the extractors fill
ExtractedFields == {"participants", "tasks", "key_decisions", "topics_discussed"}

\* the tool analyze_meeting_transcript(transcript) of the side-channel server,
\* in an interpreter whose hash seed yields order; a caller that holds the
\* result of a call may call again on the same text and keeps the earlier
\* result next to the new one. analysis_cache is written and never read.
call_analyze_meeting_transcript(transcript, order) ==
    /\ resp = NoResponse \/ (resp.op = "analyze_meeting_transcript"
                              /\ resp.transcript = transcript)
    /\ resp' = [op |-> "analyze_meeting_transcript", transcript |-> transcript,
                result |-> analyze_meeting_transcript(transcript, now, order),
                earlier |-> IF resp = NoResponse THEN << >>
                            ELSE <<[k \in ExtractedFields |-> resp.result[k]]>>]
    /\ UNCHANGED <<now, dirs, files, log, mcp_process, mcp_client, children, threads>>

NextExtract ==
    \/ deliver
    \/ \E transcript \in ExtractTranscripts :
         \E order \in Orderings(ParticipantSet(transcript)) :
           call_analyze_meeting_transcript(transcript, order)

SpecExtract == Init /\ [][NextExtract]_vars

\* The request threads of the server run process_meeting_transcript on the one
\* processor of the module without a lock; the steps below are the reads and
\* writes of its fields by one thread, in the order of the code.

\* line 96: the thread reads self.mcp_process and polls it
request_begins(t) ==
    /\ resp = NoResponse
    /\ threads[t] = "idle"
    /\ threads' = [threads EXCEPT ![t] = IF mcp_process # "running" THEN "popen"
                                         ELSE "client"]
    /\ UNCHANGED <<now, dirs, files, log, resp, mcp_process, mcp_client, children>>

\* lines 37-44 of start_mcp_server: Popen and the assignment of the handle, or
\* the exception that makes start_mcp_server return False
thread_popen(t, popen_ok) ==
    /\ threads[t] = "popen"
    /\ IF popen_ok
       THEN /\ Cardinality(children) < MaxChildren
            /\ children' = Popen(children, FALSE)
            /\ mcp_process' = "running"
            /\ threads' = [threads EXCEPT ![t] = "probe"]
       ELSE /\ threads' = [threads EXCEPT ![t] = "direct"]
            /\ UNCHANGED <<mcp_process, children>>
    /\ UNCHANGED <<now, dirs, files, log, resp, mcp_client>>

\* lines 46-49: the sleep and _test_connection against the server URL, which
\* whatever process listens there answers
thread_probe(t, probe_ok) ==
    /\ threads[t] = "probe"
    /\ probe_ok => children # {}
    /\ children' = IF probe_ok
                   THEN {IF c.held THEN [c EXCEPT !.probed = TRUE] ELSE c : c \in children}
                   ELSE children
    /\ threads' = [threads EXCEPT ![t] = IF probe_ok THEN "client" ELSE "direct"]
    /\ UNCHANGED <<now, dirs, files, log, resp, mcp_process, mcp_client>>

\* lines 102-104: initialize_mcp when self.mcp_client is not set
thread_client(t, ctor_ok, init_ok) ==
    /\ threads[t] = "client"
    /\ IF mcp_client = "None"
       THEN /\ mcp_client' = IF ctor_ok THEN "client" ELSE "None"
            /\ threads' = [threads EXCEPT ![t] = IF ctor_ok /\ init_ok THEN "call"
                                                 ELSE "direct"]
       ELSE /\ ctor_ok /\ init_ok
            /\ threads' = [threads EXCEPT ![t] = "call"]
            /\ UNCHANGED mcp_client
    /\ UNCHANGED <<now, dirs, files, log, resp, mcp_process, children>>

\* lines 107-115 or _process_transcript_direct: the generation call and the
\* return of the request
thread_returns(t) ==
    /\ threads[t] \in {"call", "direct"}
    /\ threads' = [threads EXCEPT ![t] = "idle"]
    /\ UNCHANGED <<now, dirs, files, log, resp, mcp_process, mcp_client, children>>

\* a side-channel process ends by itself
child_exits(c) ==
    /\ c \in children
    /\ children' = children \ {c}
    /\ mcp_process' = IF c.held THEN "exited" ELSE mcp_process
    /\ UNCHANGED <<now, dirs, files, log, resp, mcp_client, threads>>

NextConcurrent ==
    \/ deliver
    \/ \E t \in Threads : request_begins(t)
    \/ \E t \in Threads, popen_ok \in BOOLEAN : thread_popen(t, popen_ok)
    \/ \E t \in Threads, probe_ok \in BOOLEAN : thread_probe(t, probe_ok)
    \/ \E t \in Threads, ctor_ok \in BOOLEAN, init_ok \in BOOLEAN :
         thread_client(t, ctor_ok, init_ok)
    \/ \E t \in Threads : thread_returns(t)
    \/ \E c \in children : child_exits(c)
    \/ \E exits_in_time \in BOOLEAN : cleanup(exits_in_time)

SpecConcurrent == Init /\ [][NextConcurrent]_vars

\* ------------------------------------------------ the History Store claims
\* the stored units of one storage key
UnitsOf(key) == {p \in DOMAIN files : p[1] = key}

\* the logged saves of one storage key
SavesFor(key) == {i \in 1..Len(log) : TeamKey(log[i].team_id) = key}

\* the second a unit's name carries
StampSeconds(filename) ==
    LET n == Len(filename)
    IN 3600 * (10 * DigitVal(filename[n - 6]) + DigitVal(filename[n - 5]))
         + 60 * (10 * DigitVal(filename[n - 4]) + DigitVal(filename[n - 3]))
         + 10 * DigitVal(filename[n - 2]) + DigitVal(filename[n - 1])

CreatedAt(record) == StampSeconds(record["filename"].s)

\* a listing has just returned; get_team_history lists with exclude_current
\* False, the direct call with the default
ListReturned == resp.op \in {"get_team_history", "get_previous_meetings"}

ExcludeOf(r) == IF r.op = "get_team_history" THEN FALSE ELSE ExcludeCurrentDefault

\* C1: save never overwrites: after k saves for one team key exactly k units
\* exist under that key, and a listing with limit >= k returns all k of them.
C1_SaveNeverOverwrites ==
    /\ \A key \in {TeamKey(t) : t \in TeamIds} :
          Cardinality(UnitsOf(key)) = Cardinality(SavesFor(key))
    /\ (resp.op = "get_team_history"
          /\ resp.limit >= Cardinality(SavesFor(TeamKey(resp.team_id))))
         => Len(resp.history) = Cardinality(SavesFor(TeamKey(resp.team_id)))

\* C2: a listing is strictly most-recent-first by creation time: every returned
\* record was created at the second of a logged save of that team key, each
\* record is strictly newer than the next one, and a listing that skips nothing
\* (exclude_current False) returns every stored unit newer than a returned one
\* before it.
C2_ListNewestFirst ==
    ListReturned =>
      LET h == resp.history
          key == TeamKey(resp.team_id)
      IN /\ \A i \in 1..Len(h) : \E k \in SavesFor(key) : log[k].t1 = CreatedAt(h[i])
         /\ \A i, j \in 1..Len(h) : i < j => CreatedAt(h[i]) > CreatedAt(h[j])
         /\ resp.op = "get_team_history" =>
              \A p \in UnitsOf(key) : \A i \in 1..Len(h) :
                 StampSeconds(p[2]) > CreatedAt(h[i])
                   => \E j \in 1..(i - 1) : h[j]["filename"].s = p[2]

\* C2 witness: a listing returned three or more records saved at distinct
\* seconds, the newest of them saved by a request of this run
C2_Witness ==
    /\ resp.op = "get_team_history"
    /\ Len(resp.history) >= 3
    /\ CreatedAt(resp.history[1]) >= GuardSeconds
    /\ CreatedAt(resp.history[1]) > CreatedAt(resp.history[2])
    /\ CreatedAt(resp.history[2]) > CreatedAt(resp.history[3])

\* the members save_meeting_summary adds to a record
StorageAdded == {"team_id", "date", "filename"}

\* a listing h is the round trip of the logged save e: one record, equal to the
\* saved one on every analysis member, with the storage-added members present
RoundTrip(h, e) ==
    /\ Len(h) = 1
    /\ StorageAdded \subseteq DOMAIN h[1]
    /\ DOMAIN h[1] = (DOMAIN e.summary_data) \cup StorageAdded
    /\ \A k \in (DOMAIN e.summary_data) \ StorageAdded : h[1][k] = e.summary_data[k]

\* the last logged save was made by a request of this run for the team the
\* response is about
SavedLastFor(team_id) ==
    /\ log # << >>
    /\ Last(log).t1 >= GuardSeconds
    /\ Last(log).team_id = team_id

\* C3 as stated: save(t, r) followed immediately by list(t, limit=1), called
\* with team and limit only, returns exactly one record equal to r with the
\* storage-added members present.
C3_RoundTripDefaultCall ==
    (resp.op = "get_previous_meetings" /\ resp.limit = 1
       /\ SavedLastFor(resp.team_id) /\ now = Last(log).t2)
      => RoundTrip(resp.history, Last(log))

\* C3 amended: save(t, r) followed, with no other save in between, by list(t,
\* limit=1) with exclude_current False returns exactly one record equal to r on
\* every analysis member, with team_id, date and filename present.
C3_RoundTripUnguarded ==
    (resp.op = "get_team_history" /\ resp.limit = 1 /\ SavedLastFor(resp.team_id))
      => RoundTrip(resp.history, Last(log))

\* C3 witness: the unguarded listing of limit 1 returned in the second of the
\* save it follows
C3_Witness ==
    /\ resp.op = "get_team_history" /\ resp.limit = 1
    /\ SavedLastFor(resp.team_id) /\ now = Last(log).t2
    /\ Len(resp.history) = 1
    /\ resp.history[1]["summary"] = Last(log).summary_data["summary"]

\* ------------------------------------------------- the context formatter
\* the saves among the first n logged ones whose unit a store of that moment
\* still holds: under one key a later save of the same second has the same name
StoredAfter(n, key) ==
    {i \in 1..n : /\ TeamKey(log[i].team_id) = key
                  /\ \A j \in (i + 1)..n :
                        TeamKey(log[j].team_id) = key => log[j].t1 # log[i].t1}

\* logged saves of distinct seconds, the most recent first
RECURSIVE NewestFirst(_)
NewestFirst(I) ==
    IF I = {} THEN << >>
    ELSE LET m == CHOOSE i \in I : \A j \in I : log[j].t1 <= log[i].t1
         IN <<m>> \o NewestFirst(I \ {m})

\* the record the i-th logged save stored
RecordOf(i) ==
    [k \in (DOMAIN log[i].summary_data) \cup StorageAdded |->
        CASE k = "team_id" -> JStr(log[i].team_id)
          [] k = "date" -> JStr(isoformat(log[i].t2))
          [] k = "filename" -> JStr(_generate_filename(log[i].team_id, log[i].t1))
          [] OTHER -> log[i].summary_data[k]]

\* the number of meeting sections of a context block
SectionCount(context) ==
    Cardinality({i \in 1..Len(context) :
                   context[i] # << >> /\ context[i][1] = "--- Meeting "})

\* an analysis request has returned 200
Analysed == resp.op = "process_transcript" /\ resp.status = 200

PromptWithoutContext(transcript) ==
    <<<<"Please analyze the following meeting transcript">>,
      <<"Meeting Transcript:">>, transcript,
      <<"Please provide your analysis in the following JSON structure:">>,
      <<"Focus on extracting concrete, actionable tasks and clear decisions.">>>>

\* C7: a request naming a team without stored records builds the empty context
\* block, and its prompt is the prompt of the same transcript without a team:
\* no continuity instruction appears in either.
C7_EmptyHistoryEmptyContext ==
    /\ (Analysed /\ resp.team_id = NoTeam)
         => resp.prompt = PromptWithoutContext(resp.transcript)
    /\ (Analysed /\ resp.team_id # NoTeam
          /\ StoredAfter(Len(log) - 1, TeamKey(resp.team_id)) = {})
         => /\ Last(log).context = << >>
            /\ resp.prompt = PromptWithoutContext(resp.transcript)

\* C7 witness: the first request for a team that has no history has returned
C7_Witness ==
    /\ Analysed
    /\ resp.team_id = <<"O">>
    /\ SavesFor(TeamKey(resp.team_id)) = {Len(log)}
    /\ Len(resp.prompt) = 5

\* C8: listTeams returns exactly the sorted display names of the team keys
\* that hold at least one stored record; a team that was only read from is
\* not among them.
C8_TeamIndex ==
    resp.op = "get_teams" =>
      /\ Range(resp.teams) = {DisplayName(p[1]) : p \in DOMAIN files}
      /\ \A i, j \in 1..Len(resp.teams) : i < j => LexLess(resp.teams[i], resp.teams[j])

\* ------------------------------------------- the guard and the limit
\* the second a stored unit is dated at
DateSeconds(record) == fromisoformat(record["date"].s)

\* the stored readable units of a key a listing at the clock reading may
\* return: all of them, or with the guard those dated at or before a minute ago
Eligible(key, clock, exclude) ==
    {p \in UnitsOf(key) :
        /\ IsJson(files[p])
        /\ exclude => DateSeconds(JsonLoad(files[p])) <= clock - GuardSeconds}

\* C9: a listing with exclude_current True returns only records dated at or
\* before now minus one minute, and it returns the eligible units newest first
\* without passing one over until min(limit, eligible) are returned; with
\* exclude_current False every stored readable unit is eligible, so that none is
\* skipped for its date.
C9_RecentRecordGuard ==
    ListReturned =>
      LET h == resp.history
          eligible == Eligible(TeamKey(resp.team_id), now, ExcludeOf(resp))
      IN /\ ExcludeOf(resp) =>
              \A i \in 1..Len(h) : DateSeconds(h[i]) <= now - GuardSeconds
         /\ \A i \in 1..Len(h) :
               \E p \in eligible : p[2] = h[i]["filename"].s /\ JsonLoad(files[p]) = h[i]
         /\ \A p \in eligible : \A i \in 1..Len(h) :
               StampSeconds(p[2]) > CreatedAt(h[i])
                 => \E j \in 1..(i - 1) : h[j]["filename"].s = p[2]
         /\ Len(h) >= Min(resp.limit, Cardinality(eligible))

\* C9 witness: a guarded listing returned a record dated exactly a minute ago
\* while the store holds newer records of the team, which it skipped
C9_Witness ==
    /\ resp.op = "get_previous_meetings"
    /\ Len(resp.history) >= 1
    /\ DateSeconds(resp.history[1]) = now - GuardSeconds
    /\ \E p \in UnitsOf(TeamKey(resp.team_id)) :
          DateSeconds(JsonLoad(files[p])) > now - GuardSeconds

\* C10: a listing returns at most limit records, exactly min(limit, number of
\* eligible records) of them; limit 0 returns none.
C10_LimitBound ==
    ListReturned =>
      /\ Len(resp.history) <= resp.limit
      /\ Len(resp.history) =
           Min(resp.limit,
               Cardinality(Eligible(TeamKey(resp.team_id), now, ExcludeOf(resp))))

\* ------------------------------------------- the analysis pipeline claims
\* the members of a MeetingRecord and of a TaskItem, and the values allowed
RecordFields ==
    {"summary", "participants", "key_decisions", "tasks", "action_items",
     "next_meeting", "topics_discussed"}

TaskFields == {"task", "assignee", "due_date", "priority", "status"}

Priorities == {Lit("high"), Lit("medium"), Lit("low")}

Statuses ==
    {Lit("assigned"), Lit("pending"), Lit("discussed"), Lit("completed"),
     Lit("in-progress")}

\* process_meeting_transcript has just returned
AnalysisReturned == resp.op = "process_meeting_transcript"

\* C4: whatever the outcome of the pipeline, the record returned for a
\* non-empty transcript has all seven members, and each of its tasks has the
\* five members with priority and status among the allowed values.
C4_SchemaConformance ==
    AnalysisReturned =>
      LET r == resp.result
      IN /\ RecordFields \subseteq DOMAIN r
         /\ r["tasks"].t = "list"
         /\ \A i \in 1..Len(r["tasks"].items) :
               LET task == r["tasks"].items[i]
               IN /\ task.t = "obj"
                  /\ DOMAIN task.m = TaskFields
                  /\ task.m["priority"] \in Priorities
                  /\ task.m["status"] \in Statuses

\* C5: when the generation capability raises or returns no output, the record
\* returned is the pattern-based extractor's for the raw transcript, on every
\* member of a MeetingRecord, and not one made from the failure.
C5_FallbackPolicy ==
    (AnalysisReturned /\ resp.gen.kind \in {"raises", "no_output"}) =>
      LET r == resp.result
      IN \E order \in Orderings(ParticipantSet(resp.transcript)) :
           LET fallback == analyze_meeting_transcript(resp.transcript, now, order)
           IN \A k \in RecordFields : k \in DOMAIN r /\ r[k] = fallback[k]

\* ------------------------------------------------------ damaged units
\* the units of a key that json.load reads as an object
Readable(key) == {p \in UnitsOf(key) : IsJson(files[p])}

\* C11: when some stored units of a team are malformed or unreadable, a listing
\* does not fail: it returns records of readable units only, most recent first
\* without passing a readable eligible unit over, and the units it skips do
\* not count toward limit.
C11_ReadRecovery ==
    ListReturned =>
      /\ "history" \in DOMAIN resp
      /\ LET h == resp.history
             key == TeamKey(resp.team_id)
             eligible == Eligible(key, now, ExcludeOf(resp))
         IN /\ \A i \in 1..Len(h) :
                  \E p \in eligible : p[2] = h[i]["filename"].s /\ JsonLoad(files[p]) = h[i]
            /\ \A i, j \in 1..Len(h) : i < j => CreatedAt(h[i]) > CreatedAt(h[j])
            /\ \A p \in eligible : \A i \in 1..Len(h) :
                  StampSeconds(p[2]) > CreatedAt(h[i])
                    => \E j \in 1..(i - 1) : h[j]["filename"].s = p[2]
            /\ Len(h) >= Min(resp.limit, Cardinality(eligible))

\* the two handlers that feed the pipeline
Handlers == {"process_transcript", "upload_transcript"}

\* C12: a record is written to the store only for an analysis that completed;
\* no saved request's analysis result and no stored unit carries an error
\* marker
C12_NoErrorRecordStored ==
    /\ \A i \in 1..Len(log) : "error" \notin DOMAIN log[i].summary_data
    /\ \A p \in DOMAIN files :
         IsJson(files[p]) => "error" \notin DOMAIN JsonLoad(files[p])

\* C13: on both inbound paths an empty transcript is answered with a
\* validation error and no saved request has an empty transcript
C13_EmptyTranscriptRejected ==
    /\ (resp.op \in Handlers /\ "transcript" \in DOMAIN resp /\ resp.transcript = << >>)
         => resp.status = 400
    /\ \A i \in 1..Len(log) : log[i].transcript # << >>

\* C19: a request whose save failed is answered with status 500 and an error,
\* never with success, and is not among the saved requests
C19_WriteFailurePropagates ==
    (resp.op \in Handlers /\ "io" \in DOMAIN resp /\ resp.io # "ok")
      => /\ resp.status = 500
         /\ "error" \in DOMAIN resp
         /\ "result" \notin DOMAIN resp

C19_Witness ==
    /\ resp.op \in Handlers
    /\ "io" \in DOMAIN resp
    /\ resp.io = "dump_fails"
    /\ resp.status = 500
    /\ \E p \in DOMAIN files : p[1] = TeamKey(resp.team_id) /\ ~IsJson(files[p])

\* the generation call returned a reply in which no brace-delimited text is found
NoJsonReply ==
    AnalysisReturned /\ resp.gen.kind = "text" /\ RegexSearch(resp.gen.text) = << >>

\* the list fields of a record
ListFields == {"participants", "key_decisions", "tasks", "action_items", "topics_discussed"}

\* every list field of the returned record is empty and next_meeting is defaulted
OtherFieldsDefaulted ==
    /\ \A k \in ListFields : k \in DOMAIN resp.result /\ resp.result[k] = EmptyList
    /\ "next_meeting" \in DOMAIN resp.result
    /\ resp.result["next_meeting"] = NotSpecified

\* C14 as stated: on a reply without a JSON object the summary is non-empty,
\* has at most 500 characters and is the start of the raw reply, and every
\* other field is empty or defaulted
C14_SummaryAtMost500 ==
    NoJsonReply =>
      /\ "summary" \in DOMAIN resp.result
      /\ resp.result["summary"].t = "str"
      /\ resp.result["summary"].s # << >>
      /\ StrLen(resp.result["summary"].s) <= SummaryChars
      /\ resp.result["summary"].s = Slice(resp.gen.text, StrLen(resp.result["summary"].s))
      /\ OtherFieldsDefaulted

\* C14 amended: on a reply without a JSON object the summary is the raw reply
\* when that has at most 500 characters, and otherwise its first 500 characters
\* followed by "..." (503 characters); it is empty only for an empty reply;
\* every other field is empty or defaulted
C14_NoJsonSummary ==
    NoJsonReply =>
      LET reply == resp.gen.text
          summary == resp.result["summary"]
      IN /\ "summary" \in DOMAIN resp.result
         /\ summary.t = "str"
         /\ StrLen(reply) <= SummaryChars => summary.s = reply
         /\ StrLen(reply) > SummaryChars =>
              /\ StrLen(summary.s) = SummaryChars + 3
              /\ Slice(summary.s, SummaryChars) = Slice(reply, SummaryChars)
              /\ Last(summary.s) = "..."
         /\ (summary.s = << >>) <=> (reply = << >>)
         /\ "error" \notin DOMAIN resp.result
         /\ OtherFieldsDefaulted

C14_Witness ==
    /\ NoJsonReply
    /\ StrLen(resp.gen.text) > SummaryChars
    /\ StrLen(resp.result["summary"].s) = SummaryChars + 3

\* the generation call returned a reply whose brace-delimited text json.loads
\* rejects
MalformedReply ==
    /\ AnalysisReturned
    /\ resp.gen.kind = "text"
    /\ RegexSearch(resp.gen.text) # << >>
    /\ JsonLoads(SubSeq(resp.gen.text, RegexSearch(resp.gen.text)[1],
                        RegexSearch(resp.gen.text)[2])).exc # "none"

\* C15: on a reply whose brace-delimited text is no JSON the returned record
\* carries no error marker, its summary is the truncated reply text and its
\* other fields are empty or defaulted
C15_MalformedReplyBestEffort ==
    MalformedReply =>
      /\ "error" \notin DOMAIN resp.result
      /\ "summary" \in DOMAIN resp.result
      /\ resp.result["summary"] \in {JStr(Truncated(resp.gen.text)),
                                     JStr(Slice(resp.gen.text, SummaryChars))}
      /\ OtherFieldsDefaulted

\* the side channel failed during the call: Popen or the probe, or the
\* construction or initialisation of the client
SideChannelFailed == AnalysisReturned /\ resp.path = "direct"

\* process_meeting_transcript with the side channel up
HealthyEnv == [popen_ok |-> TRUE, probe_ok |-> TRUE, ctor_ok |-> TRUE, init_ok |-> TRUE]

\* C16: when the side channel fails the generation call is made exactly once,
\* with the prompt of the request, and the returned record is the one the same
\* reply yields with the side channel up
C16_SideChannelNonFatal ==
    SideChannelFailed =>
      /\ Len(resp.calls) = 1
      /\ resp.calls[1] = _create_analysis_prompt(resp.transcript, resp.context)
      /\ resp.result = process_meeting_transcript("running", "client", resp.transcript,
                                                  resp.context, resp.gen,
                                                  HealthyEnv).result

C16_Witness ==
    /\ SideChannelFailed
    /\ resp.env.popen_ok
    /\ ~resp.env.probe_ok
    /\ resp.gen = GenText(<<"J_full">>)
    /\ "error" \notin DOMAIN resp.result
    /\ resp.result["participants"] # EmptyList

\* C17: after cleanup returns, the side-channel process is not running
C17_TeardownStopsProcess ==
    resp.op = "cleanup" => mcp_process # "running"

\* the positions of the probe attempts among the events of a run
Attempts(events) == {i \in 1..Len(events) : events[i] = "get"}

\* C18: _test_connection makes at most 3 attempts, sleeps between any two
\* consecutive attempts, returns true exactly when an attempt got status 200,
\* which is then its last, and returns false only after three failed attempts
C18_BoundedProbe ==
    resp.op = "_test_connection" =>
      LET n == Cardinality(Attempts(resp.events))
      IN /\ n >= 1
         /\ n <= 3
         /\ \A i \in Attempts(resp.events) :
              (i < Len(resp.events) /\ \E j \in Attempts(resp.events) : j > i)
                => resp.events[i + 1] = "sleep"
         /\ resp.result <=> resp.outcomes[n] = "200"
         /\ \A k \in 1..(n - 1) : resp.outcomes[k] # "200"
         /\ ~resp.result => n = 3

\* C20: in every stored record the second encoded in the filename field is the
\* second of the date field, and the filename field is the name of the unit
C20_SelfDescribingUnits ==
    \A p \in DOMAIN files :
      IsJson(files[p]) =>
        LET record == JsonLoad(files[p])
        IN /\ {"filename", "date", "team_id"} \subseteq DOMAIN record
           /\ record["filename"] = JStr(p[2])
           /\ StampSeconds(record["filename"].s) = DateSeconds(record)

\* the read operations of the store as the model calls them
ReadOps == {"get_team_history", "get_previous_meetings"}

\* C21: a read operation leaves the storage state unchanged: no unit and no
\* team directory is created, modified or removed
C21_ReadsArePure ==
    [][(resp = NoResponse /\ resp'.op \in ReadOps) => (dirs' = dirs /\ files' = files)]_vars

\* the pattern-based analysis returned
Extracted == resp.op = "analyze_meeting_transcript"

\* C22: two invocations of the pattern-based analysis on the same text return
\* the same participants in the same order, and the same tasks, decisions and
\* topics
C22_ExtractionDeterministic ==
    (Extracted /\ resp.earlier # << >>) =>
      \A k \in ExtractedFields : resp.result[k] = resp.earlier[1][k]

\* the decision clauses captured in a transcript, trimmed, in scan order
CapturedDecisions(transcript) ==
    LET matches == MatchesOf(<<"decision_1", "decision_2", "decision_3">>, transcript)
    IN [i \in 1..Len(matches) |-> Strip(matches[i].groups[1])]

\* C23: extract_decisions returns the first at most 5 of the captured clauses
\* of at least 10 characters, in scan order
C23_DecisionFilterAndCap ==
    Extracted =>
      LET kept == SelectSeq(CapturedDecisions(resp.transcript),
                            LAMBDA clause : StrLen(clause) >= 10)
      IN resp.result["key_decisions"] =
           JList([i \in 1..Min(Len(kept), 5) |-> JStr(kept[i])])

\* the task matches of a transcript in scan order
TaskMatches(transcript) == MatchesOf(<<"task_1", "task_2", "task_3">>, transcript)

\* C24: at most 10 tasks are returned, one for each of the first matches; each
\* has the five fields with priority "medium" and due_date "Not specified"; a
\* match without an assignee gives assignee "Not specified" and status
\* "discussed", a match with an assignee gives that assignee and status
\* "assigned"
C24_FallbackTaskShape ==
    Extracted =>
      LET tasks == resp.result["tasks"].items
          matches == TaskMatches(resp.transcript)
      IN /\ Len(tasks) <= 10
         /\ Len(tasks) = Min(Len(matches), 10)
         /\ \A i \in 1..Len(tasks) :
              LET task == tasks[i].m
                  captured == Len(matches[i].groups) = 2
              IN /\ DOMAIN task = TaskFields
                 /\ task.priority = Lit("medium")
                 /\ task.due_date = NotSpecified
                 /\ task.status = Lit("discussed") <=> ~captured
                 /\ ~captured => task.assignee = NotSpecified
                 /\ captured => /\ task.assignee = JStr(Strip(matches[i].groups[1]))
                                /\ task.status = Lit("assigned")

C24_Witness ==
    /\ Extracted
    /\ Len(TaskMatches(resp.transcript)) > 10
    /\ Len(resp.result["tasks"].items) = 10
    /\ \E i \in 1..10 : resp.result["tasks"].items[i].m.status = Lit("discussed")
    /\ \E i \in 1..10 : resp.result["tasks"].items[i].m.status = Lit("assigned")

\* the capitalized words of more than 3 letters of a transcript that are no
\* stopwords, in the order of the text
TopicWords(transcript) ==
    LET found == FindAll("words", transcript)
    IN SelectSeq([i \in 1..Len(found) |-> found[i].groups[1]],
                 LAMBDA word : word \notin {<<"Speaker">>, <<"The">>, <<"This">>,
                                             <<"That">>, <<"With">>, <<"From">>})

\* how often a word stands in a sequence of words, and where it stands first
CountIn(words, w) == Cardinality({i \in 1..Len(words) : words[i] = w})

FirstIn(words, w) == CHOOSE i \in 1..Len(words) : words[i] = w /\ \A j \in 1..(i - 1) : words[j] # w

\* w ranks before v: it is more frequent, or as frequent and seen first
RanksBefore(words, w, v) ==
    \/ CountIn(words, w) > CountIn(words, v)
    \/ CountIn(words, w) = CountIn(words, v) /\ FirstIn(words, w) < FirstIn(words, v)

\* C25: topics_discussed holds the at most 5 distinct words of highest count,
\* by falling count, words of equal count in the order they are first seen
C25_FallbackTopics ==
    Extracted =>
      LET words == TopicWords(resp.transcript)
          items == resp.result["topics_discussed"].items
          topics == [i \in 1..Len(items) |-> items[i].s]
      IN /\ Len(topics) = Min(Cardinality(Range(words)), 5)
         /\ \A i \in 1..Len(topics) : topics[i] \in Range(words)
         /\ \A i \in 1..Len(topics) : \A j \in (i + 1)..Len(topics) :
              RanksBefore(words, topics[i], topics[j])
         /\ \A w \in Range(words) \ Range(topics) : \A i \in 1..Len(topics) :
              RanksBefore(words, topics[i], w)

C25_Witness ==
    /\ Extracted
    /\ Cardinality(Range(TopicWords(resp.transcript))) > 5
    /\ Len(resp.result["topics_discussed"].items) = 5
    /\ \E w \in Range(TopicWords(resp.transcript)) : CountIn(TopicWords(resp.transcript), w) > 1
    /\ FirstIn(TopicWords(resp.transcript), resp.result["topics_discussed"].items[1].s) > 1

\* C27: a request that finds the side-channel process running, and so goes
\* on to the client on it without a start, finds a process for which a
\* liveness probe has succeeded
C27_HealthCheckedReuse ==
    (AnalysisReturned /\ resp.found = "running") => resp.probed

\* C26: at most one side-channel process is alive, and every process alive
\* is the one the handle of the processor refers to
C26_NoOrphanedProcess ==
    /\ Cardinality(children) <= 1
    /\ \A c \in children : c.held

\* the paths whose unit a step creates, changes or removes
Written == {p \in DOMAIN files \cup DOMAIN files' :
              p \notin DOMAIN files \/ p \notin DOMAIN files' \/ files'[p] # files[p]}

\* C28: a request for a team that is answered with success was analysed with
\* the context of the store as it was before the request, and its record is
\* saved once: one more saved request, and no more than one unit written
C28_ContextPrecedesSave ==
    [][(resp = NoResponse /\ resp'.op \in Handlers /\ resp'.status = 200
        /\ resp'.team_id # NoTeam)
       => /\ resp'.prompt = _create_analysis_prompt(
                              resp'.transcript,
                              generate_context_prompt(files, now, resp'.team_id))
          /\ Len(log') = Len(log) + 1
          /\ Last(log').context = generate_context_prompt(files, now, resp'.team_id)
          /\ Cardinality(Written) <= 1]_vars

\* a request has returned whose record, saved by it, would have changed its
\* context had it been in the store before
C28_Witness ==
    /\ resp.op = "upload_transcript"
    /\ resp.status = 200
    /\ resp.team_id # NoTeam
    /\ resp.prompt # _create_analysis_prompt(
                       resp.transcript,
                       generate_context_prompt(files, now, resp.team_id))

\* what list returns for a team on the store as it stands
History(team_id) == get_previous_meetings(files, now, team_id, DefaultLimit, FALSE)

\* the storage keys of the records a list holds
KeysIn(history) ==
    {TeamKey(Get(history[i], "team_id", JStr(<< >>)).s) : i \in 1..Len(history)}

\* a read of the history of a team has returned a list
Listed ==
    /\ resp.op \in {"get_team_history", "get_previous_meetings"}
    /\ "history" \in DOMAIN resp

\* C29: the list returned for a team holds only records saved under an
\* identifier with the storage key of the team, it is the list of every
\* identifier with that key, and it has no record in common with the list of
\* an identifier with another key
C29_TeamIsolation ==
    (Listed /\ resp.limit = DefaultLimit)
    => /\ KeysIn(resp.history) \subseteq {TeamKey(resp.team_id)}
       /\ \A u \in IsolationTeams :
            IF TeamKey(u) = TeamKey(resp.team_id)
            THEN get_previous_meetings(files, now, u, DefaultLimit,
                                       resp.op = "get_previous_meetings") = resp.history
            ELSE Range(History(u)) \cap Range(resp.history) = {}

\* the part of C29 that holds: the list returned for an identifier whose key
\* has no metacharacter, against the other such identifiers
C29_PlainKeysIsolated ==
    (Listed /\ resp.limit = DefaultLimit /\ resp.team_id # <<"*">>)
    => /\ KeysIn(resp.history) \subseteq {TeamKey(resp.team_id)}
       /\ \A u \in IsolationTeams \ {<<"*">>} :
            IF TeamKey(u) = TeamKey(resp.team_id)
            THEN get_previous_meetings(files, now, u, DefaultLimit,
                                       resp.op = "get_previous_meetings") = resp.history
            ELSE Range(History(u)) \cap Range(resp.history) = {}

\* the identifiers "O" and "o" were both saved under, and the list returned
\* for one of them holds the records of both
C29_SharedHistory ==
    /\ Listed
    /\ resp.team_id = <<"o">>
    /\ {Get(resp.history[i], "team_id", JStr(<< >>)).s : i \in 1..Len(resp.history)}
         = {<<"O">>, <<"o">>}

\* C30: a request whose save failed leaves the store as it was: the same
\* units with the same content, and the same list for the team
C30_FailedSaveLeavesStore ==
    [][(resp = NoResponse /\ resp'.op \in Handlers /\ "io" \in DOMAIN resp'
        /\ resp'.io # "ok")
       => /\ files' = files
          /\ get_previous_meetings(files', now', resp'.team_id, DefaultLimit, FALSE)
               = get_previous_meetings(files, now, resp'.team_id, DefaultLimit, FALSE)]_vars

\* the part of C30 that holds: a save that fails at open() leaves the store as
\* it was
C30_FailedOpenLeavesStore ==
    [][(resp = NoResponse /\ resp'.op \in Handlers /\ "io" \in DOMAIN resp'
        /\ resp'.io = "open_fails")
       => files' = files]_vars

====
